---- MODULE Spec2Model ----
(***************************************************************************)
(* Model of @pma/build (chrisivey01/builder): the build() function of the  *)
(* package and the command line entry point that calls it.                 *)
(*                                                                         *)
(* Texts (the contents of fxmanifest.lua) are sequences of tokens.  A      *)
(* token is a piece of text that the regular expressions of the patcher    *)
(* treat as a unit: a keyword (game, rdr3_warning, ui_page), a platform    *)
(* literal (gta5, rdr3), a quote character, a blank, a line feed, or a     *)
(* run of other characters holding no quote, e.g. a quoted value.          *)
(***************************************************************************)
EXTENDS Integers, Sequences, FiniteSets, TLC

VARIABLES
    fxmanifest,   \* text of <cwd>/fxmanifest.lua on disk
    fileExists,   \* fs.existsSync(fxmanifestPath)
    contents,     \* what the latest updateFxManifest() read from the file
    wrote,        \* whether the latest updateFxManifest() called writeFileSync
    invoked,      \* whether updateFxManifest() has run at all
    IS_WATCH,     \* args.includes('--watch')
    IS_REDM,      \* args.includes('--redm')
    HAS_WEB_DIR,  \* fs.existsSync(<cwd>/web)
    SERVER_IP,    \* options.serverIP || getNetworkIP()
    config,       \* restartTimeout, debounceDelay, webDevPort, builds
    pc,           \* where build() stands
    now,          \* Date.now(), in milliseconds since build() was entered
    lastRebuild,  \* the debounce timestamp shared by all restart plugins
    ctx,          \* per build target: the state of its esbuild build/context
    ends,         \* history: one record per onEnd callback that ran
    requests,     \* one record per fetch() issued by an onEnd callback
    webProcess,   \* the nested web build (one-shot) or dev server (watch)
    exitCode      \* -1 while the process lives, else the status it exited with

patchVars == <<fxmanifest, fileExists, contents, wrote, invoked>>
profileVars == <<IS_WATCH, IS_REDM, HAS_WEB_DIR, SERVER_IP, config>>
buildVars == <<pc, now, lastRebuild, ctx, ends, requests, webProcess, exitCode>>
vars == <<fxmanifest, fileExists, contents, wrote, invoked, IS_WATCH, IS_REDM,
          HAS_WEB_DIR, SERVER_IP, config, pc, now, lastRebuild, ctx, ends,
          requests, webProcess, exitCode>>

(***************************************************************************)
(* Character classes and regular expression pieces.                        *)
(***************************************************************************)

\* \s, on the white space the texts hold
IsSpace(c) == c \in {" ", "\n"}

\* ['"]
IsQuote(c) == c \in {"'", "\""}

\* \s* from position i, greedy: the first position that holds no white space
RECURSIVE SkipSpace(_, _)
SkipSpace(s, i) ==
    IF i <= Len(s) /\ IsSpace(s[i]) THEN SkipSpace(s, i + 1) ELSE i

\* [^'"]* from position i, greedy: the first position that holds a quote
RECURSIVE SkipNonQuote(_, _)
SkipNonQuote(s, i) ==
    IF i <= Len(s) /\ ~IsQuote(s[i]) THEN SkipNonQuote(s, i + 1) ELSE i

\* kw\s+['"]lit['"] tried at position i: the position after the match, or 0
MatchDecl(s, i, kw, lit) ==
    IF i > Len(s) \/ s[i] # kw THEN 0
    ELSE LET j == SkipSpace(s, i + 1)
         IN  IF j > i + 1 /\ j + 2 <= Len(s) /\ IsQuote(s[j])
                /\ s[j + 1] = lit /\ IsQuote(s[j + 2])
             THEN j + 3 ELSE 0

\* kw\s+['"][^'"]*['"] tried at position i: the position after the match, or 0
MatchStmt(s, i, kw) ==
    IF i > Len(s) \/ i < 1 \/ s[i] # kw THEN 0
    ELSE LET j == SkipSpace(s, i + 1)
         IN  IF j > i + 1 /\ j <= Len(s) /\ IsQuote(s[j])
             THEN LET k == SkipNonQuote(s, j + 1)
                  IN  IF k <= Len(s) THEN k + 1 ELSE 0
             ELSE 0

\* The removal patterns tried at position i: the position after the match, or 0.
\*   lead = FALSE:  \n?kw\s+['"][^'"]*['"]\s*\n?       (rdr3_warning)
\*   lead = TRUE:   \n?\s*kw\s+['"][^'"]*['"]\s*\n?    (ui_page)
\* The trailing \s* is greedy and \s matches a line feed, so the match runs
\* over all the white space after the closing quote, line feeds included.
MatchRemoval(s, i, kw, lead) ==
    LET p == IF lead THEN SkipSpace(s, i)
             ELSE IF i <= Len(s) /\ s[i] = "\n" THEN i + 1 ELSE i
        e == MatchStmt(s, p, kw)
    IN  IF e = 0 THEN 0 ELSE SkipSpace(s, e)

\* String.prototype.replace with a /g removal pattern and '\n': matches are
\* taken leftmost first and the scan goes on after each match
RECURSIVE ReplaceAll(_, _, _, _)
ReplaceAll(s, i, kw, lead) ==
    IF i > Len(s) THEN <<>>
    ELSE LET e == MatchRemoval(s, i, kw, lead)
         IN  IF e # 0 THEN <<"\n">> \o ReplaceAll(s, e, kw, lead)
             ELSE <<s[i]>> \o ReplaceAll(s, i + 1, kw, lead)

\* the positions at which game\s+['"]lit['"] matches
DeclAt(s, lit) == {i \in 1..Len(s) : MatchDecl(s, i, "game", lit) # 0}

\* the positions at which kw\s+['"][^'"]*['"] matches
StmtAt(s, kw) == {i \in 1..Len(s) : MatchStmt(s, i, kw) # 0}

Min(S) == CHOOSE x \in S : \A y \in S : x <= y

\* String.prototype.replace without /g: the leftmost match of
\* game\s+['"]lit['"] becomes repl
ReplaceFirstDecl(s, lit, repl) ==
    IF DeclAt(s, lit) = {} THEN s
    ELSE LET i == Min(DeclAt(s, lit))
             e == MatchDecl(s, i, "game", lit)
         IN  SubSeq(s, 1, i - 1) \o repl \o SubSeq(s, e, Len(s))

\* String.prototype.replace without /g: the leftmost match of
\* kw\s+['"][^'"]*['"] becomes repl
ReplaceFirstStmt(s, kw, repl) ==
    IF StmtAt(s, kw) = {} THEN s
    ELSE LET i == Min(StmtAt(s, kw))
             e == MatchStmt(s, i, kw)
         IN  SubSeq(s, 1, i - 1) \o repl \o SubSeq(s, e, Len(s))

\* String.prototype.includes for a keyword
Includes(s, kw) == \E i \in 1..Len(s) : s[i] = kw

\* String.prototype.trimEnd
RECURSIVE trimEnd(_)
trimEnd(s) ==
    IF s # <<>> /\ IsSpace(s[Len(s)]) THEN trimEnd(SubSeq(s, 1, Len(s) - 1))
    ELSE s

(***************************************************************************)
(* updateFxManifest.                                                       *)
(***************************************************************************)

GameRdr3 == <<"game", " ", "'", "rdr3", "'">>

GameGta5 == <<"game", " ", "'", "gta5", "'">>

WarningText ==
    "I acknowledge that this is a prerelease build of RedM, and I am aware my resources *will* become incompatible once RedM ships."

\* the text put after $1 when the warning is inserted
WarningLine == <<"\n", "rdr3_warning", " ", "'", WarningText, "'">>

\* InsertWarning with the line feed of the replacement string left out
InsertWarningSameLine(s) ==
    IF DeclAt(s, "rdr3") = {} THEN s
    ELSE LET i == Min(DeclAt(s, "rdr3"))
             e == MatchDecl(s, i, "game", "rdr3")
         IN  SubSeq(s, 1, e - 1) \o Tail(WarningLine) \o SubSeq(s, e, Len(s))

\* `$1\nrdr3_warning '...'` for the leftmost game\s+['"]rdr3['"]
InsertWarning(s) ==
    IF DeclAt(s, "rdr3") = {} THEN s
    ELSE LET i == Min(DeclAt(s, "rdr3"))
             e == MatchDecl(s, i, "game", "rdr3")
         IN  SubSeq(s, 1, e - 1) \o WarningLine \o SubSeq(s, e, Len(s))

\* the leftmost match of a removal pattern becomes '\n': replace without /g
ReplaceFirstRemoval(s, kw, lead) ==
    LET at == {i \in 1..Len(s) : MatchRemoval(s, i, kw, lead) # 0}
    IN  IF at = {} THEN s
        ELSE SubSeq(s, 1, Min(at) - 1) \o <<"\n">>
                 \o SubSeq(s, MatchRemoval(s, Min(at), kw, lead), Len(s))

\* PatchGame without the `includes('rdr3_warning')` test
PatchGameAlwaysInsert(s, redm) ==
    IF redm
    THEN InsertWarning(ReplaceFirstDecl(s, "gta5", GameRdr3))
    ELSE ReplaceAll(ReplaceFirstDecl(s, "rdr3", GameGta5), 1, "rdr3_warning", FALSE)

\* PatchGame with the /g flag of the rdr3_warning pattern left out
PatchGameFirstWarning(s, redm) ==
    IF redm
    THEN LET u == ReplaceFirstDecl(s, "gta5", GameRdr3)
         IN  IF ~Includes(u, "rdr3_warning") THEN InsertWarning(u) ELSE u
    ELSE ReplaceFirstRemoval(ReplaceFirstDecl(s, "rdr3", GameGta5), "rdr3_warning", FALSE)

\* the branch `if (IS_REDM) ... else ...`
PatchGame(s, redm) ==
    IF redm
    THEN LET u == ReplaceFirstDecl(s, "gta5", GameRdr3)
         IN  IF ~Includes(u, "rdr3_warning") THEN InsertWarning(u) ELSE u
    ELSE ReplaceAll(ReplaceFirstDecl(s, "rdr3", GameGta5), 1, "rdr3_warning", FALSE)

\* DevUrl with the default port in place of config.webDevPort
DevUrlDefaultPort(ip, port) == "http://" \o ip \o ":" \o "5173"

\* http://${SERVER_IP}:${config.webDevPort}
DevUrl(ip, port) == "http://" \o ip \o ":" \o ToString(port)

\* desiredUiPage
DesiredUiPage(watch, ip, port) ==
    IF watch THEN <<"ui_page", " ", "'", DevUrl(ip, port), "'">>
    ELSE <<"ui_page", " ", "'", "html/index.html", "'">>

\* the branch `if (!HAS_WEB_DIR) ... else ...`
PatchUiPage(s, web, watch, ip, port) ==
    IF ~web THEN ReplaceAll(s, 1, "ui_page", TRUE)
    ELSE IF StmtAt(s, "ui_page") # {}
         THEN ReplaceFirstStmt(s, "ui_page", DesiredUiPage(watch, ip, port))
         ELSE trimEnd(s) \o <<"\n", "\n">> \o DesiredUiPage(watch, ip, port) \o <<"\n">>

\* `updated` when the function reaches its last statement
Updated(s, redm, web, watch, ip, port) ==
    PatchUiPage(PatchGame(s, redm), web, watch, ip, port)

\* One call of updateFxManifest(), the file system included
updateFxManifest ==
    LET updated == Updated(fxmanifest, IS_REDM, HAS_WEB_DIR, IS_WATCH, SERVER_IP,
                           config.webDevPort)
    IN  /\ invoked' = TRUE
        /\ fileExists' = fileExists
        /\ IF ~fileExists
           THEN /\ fxmanifest' = fxmanifest
                /\ contents' = contents
                /\ wrote' = FALSE
           ELSE /\ contents' = fxmanifest
                /\ fxmanifest' = updated
                /\ wrote' = (updated # fxmanifest)

(***************************************************************************)
(* Configuration: build(options).                                          *)
(***************************************************************************)

DefaultRestartTimeout == 2000

DefaultDebounceDelay == 500

DefaultWebDevPort == 5173

DefaultBuilds == {"client", "server"}

\* An option is <<>> when options lacks the key and <<v>> when it holds v.
\* `options.k || d` gives the default for a missing key, and the `...options`
\* that ends the object literal puts back any value options holds.
OptionOr(opt, default) == IF opt = <<>> THEN default ELSE opt[1]

\* const config = { ... }
ConfigOf(options) ==
    [restartTimeout |-> OptionOr(options.restartTimeout, DefaultRestartTimeout),
     debounceDelay  |-> OptionOr(options.debounceDelay, DefaultDebounceDelay),
     webDevPort     |-> OptionOr(options.webDevPort, DefaultWebDevPort),
     builds         |-> OptionOr(options.builds, DefaultBuilds)]

(***************************************************************************)
(* Bounds of the model and the inputs it draws.                            *)
(***************************************************************************)

\* a manifest has at most MaxLines lines
MaxLines == 3

\* the clock advances TickMs milliseconds at a time, MaxTicks times at most
TickMs == 1000

MaxTicks == 3

\* at most MaxEnds rebuild completions are followed in one watch session
MaxEnds == 2

\* the lines a manifest is made of: statements `keyword 'value'`, one of them
\* with double quotes, one indented, and the empty line
Lines ==
    { <<"game", " ", "'", "gta5", "'">>,
      <<"game", " ", "\"", "rdr3", "\"">>,
      <<"rdr3_warning", " ", "'", WarningText, "'">>,
      <<"ui_page", " ", "'", "html/index.html", "'">>,
      <<" ", " ", "fx_version", " ", "'", "cerulean", "'">>,
      <<>> }

\* lines joined by line feeds
RECURSIVE Join(_)
Join(ls) ==
    IF ls = <<>> THEN <<>>
    ELSE IF Len(ls) = 1 THEN ls[1]
    ELSE ls[1] \o <<"\n">> \o Join(Tail(ls))

Manifests == {Join(ls) : ls \in UNION {[1..n -> Lines] : n \in 0..MaxLines}}

ServerIPs == {"10.0.0.5"}

\* the options of the patcher runs: only webDevPort is read there
PatchOptions ==
    [restartTimeout : {<<>>}, debounceDelay : {<<>>}, webDevPort : {<<>>, <<3000>>},
     builds : {<<>>}]

\* the options of the build runs
BuildOptions ==
    [restartTimeout : {<<>>, <<1000>>}, debounceDelay : {<<>>, <<2000>>},
     webDevPort : {<<>>}, builds : {<<>>}]

\* the manifest of the build runs
SampleManifest ==
    Join(<< <<"game", " ", "'", "gta5", "'">>,
            <<"ui_page", " ", "'", "html/index.html", "'">> >>)

(***************************************************************************)
(* The restart plugin.                                                     *)
(***************************************************************************)

\* ShouldRestart without the test of result.errors
ShouldRestartDespiteErrors(errors, t, last, delay) == ~(t - last < delay)

\* ShouldRestart without the debounce test
ShouldRestartNoDebounce(errors, t, last, delay) == ~errors

\* ShouldRestart with <= for < in the debounce test
ShouldRestartInclusive(errors, t, last, delay) == ~errors /\ ~(t - last <= delay)

\* onEnd goes on to restart the resource: neither of its two early returns
ShouldRestart(errors, t, last, delay) == ~errors /\ ~(t - last < delay)

\* what the .then handler logs for a response
ThenLog(ok) == IF ok THEN "restarted" ELSE "status"

\* CatchLog without the test of error.name
CatchLogGeneric(name) == "failed"

\* what the .catch handler logs for an error of that name
CatchLog(name) == IF name = "AbortError" THEN "timedout" ELSE "failed"

Alive == exitCode = -1

Pending(r) == requests[r].fetch = "pending"

\* build.onEnd(async (result) => ...) of the plugin of target t
OnEnd(t, errors) ==
    LET restart == ShouldRestart(errors, now, lastRebuild, config.debounceDelay)
    IN  /\ Alive /\ IS_WATCH
        /\ ctx[t] \in {"starting", "watching"}
        /\ Len(ends) < MaxEnds
        /\ lastRebuild' = IF restart THEN now ELSE lastRebuild
        /\ requests' = IF restart
                       THEN Append(requests, [at |-> now, fetch |-> "pending",
                                              timer |-> "armed", log |-> <<>>])
                       ELSE requests
        /\ ends' = Append(ends, [at |-> now, errors |-> errors, since |-> lastRebuild,
                                 request |-> IF restart THEN Len(requests) + 1 ELSE 0])
        /\ UNCHANGED <<patchVars, profileVars, pc, now, ctx, webProcess, exitCode>>

\* fetch resolves with a response: the .then handler
Respond(r, ok) ==
    /\ Alive /\ r \in 1..Len(requests) /\ Pending(r)
    /\ requests' = [requests EXCEPT ![r].fetch = "fulfilled", ![r].timer = "cleared",
                                    ![r].log = Append(@, ThenLog(ok))]
    /\ UNCHANGED <<patchVars, profileVars, pc, now, lastRebuild, ctx, ends,
                   webProcess, exitCode>>

\* fetch rejects with a transport error: the .catch handler
NetworkError(r) ==
    /\ Alive /\ r \in 1..Len(requests) /\ Pending(r)
    /\ requests' = [requests EXCEPT ![r].fetch = "rejected", ![r].timer = "cleared",
                                    ![r].log = Append(@, CatchLog("TypeError"))]
    /\ UNCHANGED <<patchVars, profileVars, pc, now, lastRebuild, ctx, ends,
                   webProcess, exitCode>>

\* the setTimeout callback runs: controller.abort() rejects the pending fetch
\* with an AbortError, and the .catch handler follows in the same turn
TimerFires(r) ==
    /\ Alive /\ r \in 1..Len(requests)
    /\ requests[r].timer = "armed"
    /\ now - requests[r].at >= config.restartTimeout
    /\ requests' = IF Pending(r)
                   THEN [requests EXCEPT ![r].fetch = "rejected", ![r].timer = "fired",
                                         ![r].log = Append(@, CatchLog("AbortError"))]
                   ELSE [requests EXCEPT ![r].timer = "fired"]
    /\ UNCHANGED <<patchVars, profileVars, pc, now, lastRebuild, ctx, ends,
                   webProcess, exitCode>>

\* time passes (Date.now() is read in watch mode only)
Tick ==
    /\ Alive /\ IS_WATCH /\ pc # "start"
    /\ now < MaxTicks * TickMs
    /\ now' = now + TickMs
    /\ UNCHANGED <<patchVars, profileVars, pc, lastRebuild, ctx, ends, requests,
                   webProcess, exitCode>>

(***************************************************************************)
(* build() and the command line entry point.                               *)
(***************************************************************************)

\* build() from its entry to its first await: the manifest is patched, the
\* debounce timestamp is set and every target's bundler call is made
Begin ==
    /\ pc = "start"
    /\ updateFxManifest
    /\ lastRebuild' = now
    /\ ctx' = [t \in config.builds |-> IF IS_WATCH THEN "context" ELSE "building"]
    /\ pc' = "awaiting"
    /\ UNCHANGED <<profileVars, now, ends, requests, webProcess, exitCode>>

\* watch mode: esbuild.context() resolves for target t and ctx.watch() is called
ContextReady(t) ==
    /\ Alive /\ pc = "awaiting" /\ IS_WATCH
    /\ ctx[t] = "context"
    /\ ctx' = [ctx EXCEPT ![t] = "starting"]
    /\ UNCHANGED <<patchVars, profileVars, pc, now, lastRebuild, ends, requests,
                   webProcess, exitCode>>

\* watch mode: ctx.watch() resolves for target t; with the last target
\* Promise.all resolves and build() spawns the dev server and returns, or
\* awaits a promise that never settles
WatchStarted(t) ==
    /\ Alive /\ pc = "awaiting" /\ IS_WATCH
    /\ ctx[t] = "starting"
    /\ ctx' = [ctx EXCEPT ![t] = "watching"]
    /\ IF \A u \in config.builds \ {t} : ctx[u] = "watching"
       THEN IF HAS_WEB_DIR
            THEN pc' = "returned" /\ webProcess' = "spawned"
            ELSE pc' = "blocked" /\ webProcess' = webProcess
       ELSE pc' = pc /\ webProcess' = webProcess
    /\ UNCHANGED <<patchVars, profileVars, now, lastRebuild, ends, requests, exitCode>>

\* webProcess.on('error', ...): the failure is logged
SpawnError ==
    /\ Alive /\ webProcess = "spawned"
    /\ webProcess' = "error"
    /\ UNCHANGED <<patchVars, profileVars, pc, now, lastRebuild, ctx, ends, requests,
                   exitCode>>

\* one-shot mode: esbuild.build() resolves for target t; with the last target
\* Promise.all resolves and build() runs the web build (execSync, which throws
\* when the command fails) and exits
BuildDone(t, webOk) ==
    /\ Alive /\ pc = "awaiting" /\ ~IS_WATCH
    /\ ctx[t] = "building"
    /\ ctx' = [ctx EXCEPT ![t] = "built"]
    /\ IF \A u \in config.builds \ {t} : ctx[u] = "built"
       THEN /\ pc' = "exited"
            /\ webProcess' = IF ~HAS_WEB_DIR THEN webProcess
                             ELSE IF webOk THEN "built" ELSE "failed"
            /\ exitCode' = IF HAS_WEB_DIR /\ ~webOk THEN 1 ELSE 0
       ELSE UNCHANGED <<pc, webProcess, exitCode>>
    /\ UNCHANGED <<patchVars, profileVars, now, lastRebuild, ends, requests>>

\* BundlerThrows with the rejection swallowed: nothing exits
BundlerThrowsSwallowed(t) ==
    /\ Alive /\ pc = "awaiting"
    /\ ctx[t] \in {"building", "context", "starting"}
    /\ ctx' = [ctx EXCEPT ![t] = "threw"]
    /\ UNCHANGED <<patchVars, profileVars, pc, now, lastRebuild, ends, requests,
                   webProcess, exitCode>>

\* the bundler call of target t throws: Promise.all rejects, build() rejects
\* and the .catch of cli.js exits with status 1
BundlerThrows(t) ==
    /\ Alive /\ pc = "awaiting"
    /\ ctx[t] \in {"building", "context", "starting"}
    /\ ctx' = [ctx EXCEPT ![t] = "threw"]
    /\ pc' = "exited"
    /\ exitCode' = 1
    /\ UNCHANGED <<patchVars, profileVars, now, lastRebuild, ends, requests, webProcess>>

(***************************************************************************)
(* Specifications.                                                         *)
(***************************************************************************)

InitBuildVars ==
    /\ pc = "start"
    /\ now = 0
    /\ lastRebuild = 0
    /\ ctx = [t \in config.builds |-> "idle"]
    /\ ends = <<>>
    /\ requests = <<>>
    /\ webProcess = "none"
    /\ exitCode = -1

\* one run of build() under the command line entry point
Init ==
    /\ fxmanifest = SampleManifest
    /\ fileExists = TRUE
    /\ contents = <<>>
    /\ wrote = FALSE
    /\ invoked = FALSE
    /\ IS_WATCH \in BOOLEAN
    /\ IS_REDM = FALSE
    /\ HAS_WEB_DIR \in BOOLEAN
    /\ SERVER_IP = "10.0.0.5"
    /\ config \in {ConfigOf(o) : o \in BuildOptions}
    /\ InitBuildVars

Next ==
    \/ Begin
    \/ \E t \in config.builds : ContextReady(t)
    \/ \E t \in config.builds : WatchStarted(t)
    \/ SpawnError
    \/ \E t \in config.builds, webOk \in BOOLEAN : BuildDone(t, webOk)
    \/ \E t \in config.builds : BundlerThrows(t)
    \/ \E t \in config.builds, errors \in BOOLEAN : OnEnd(t, errors)
    \/ \E r \in 1..MaxEnds, ok \in BOOLEAN : Respond(r, ok)
    \/ \E r \in 1..MaxEnds : NetworkError(r)
    \/ \E r \in 1..MaxEnds : TimerFires(r)
    \/ Tick

Spec == Init /\ [][Next]_vars

\* The event loop runs a timer callback that is due
FairSpec == Spec /\ \A r \in 1..MaxEnds : WF_vars(TimerFires(r))

\* the patcher alone: updateFxManifest() run again and again on any manifest
\* under any profile
PatchInit ==
    /\ fileExists \in BOOLEAN
    /\ fxmanifest \in (IF fileExists THEN Manifests ELSE {<<>>})
    /\ contents = <<>>
    /\ wrote = FALSE
    /\ invoked = FALSE
    /\ IS_WATCH \in BOOLEAN
    /\ IS_REDM \in BOOLEAN
    /\ HAS_WEB_DIR \in BOOLEAN
    /\ SERVER_IP \in ServerIPs
    /\ config \in {ConfigOf(o) : o \in PatchOptions}
    /\ InitBuildVars

Patch == updateFxManifest /\ UNCHANGED <<profileVars, buildVars>>

PatchSpec == PatchInit /\ [][Patch]_vars

(***************************************************************************)
(* Properties of the manifest patcher, checked under PatchSpec.            *)
(***************************************************************************)

\* the platform literal the profile switches away from
Opposite == IF IS_REDM THEN "gta5" ELSE "rdr3"

\* the ui_page declaration that starts at position i
UiDeclText(s, i) == SubSeq(s, i, MatchStmt(s, i, "ui_page") - 1)

\* s without its leftmost ui_page declaration
CutUiDecl(s) ==
    LET i == Min(StmtAt(s, "ui_page"))
    IN  SubSeq(s, 1, i - 1) \o SubSeq(s, MatchStmt(s, i, "ui_page"), Len(s))

\* s ends with t
EndsWith(s, t) == Len(s) >= Len(t) /\ SubSeq(s, Len(s) - Len(t) + 1, Len(s)) = t

\* the lines of s
RECURSIVE SplitLines(_)
SplitLines(s) ==
    IF ~Includes(s, "\n") THEN <<s>>
    ELSE LET i == Min({k \in 1..Len(s) : s[k] = "\n"})
         IN  <<SubSeq(s, 1, i - 1)>> \o SplitLines(SubSeq(s, i + 1, Len(s)))

\* a line that holds a statement and none of the three patched keywords
IsOtherLine(l) ==
    /\ \E k \in 1..Len(l) : ~IsSpace(l[k])
    /\ ~Includes(l, "game") /\ ~Includes(l, "rdr3_warning") /\ ~Includes(l, "ui_page")

\* the other statements of s, each with its indentation, in order
OtherLines(s) == SelectSeq(SplitLines(s), IsOtherLine)

\* C1 as stated: once the patcher has run, running it again with the same
\* profile leaves the file as it is and writes nothing, whatever the manifest.
C1_IdempotentAlways == [][invoked => (fxmanifest' = fxmanifest /\ ~wrote')]_vars

\* C1 amended: when the manifest read by a run of the patcher held at most one
\* game declaration of the platform switched away from, the next run with the
\* same profile leaves the file as it is and writes nothing.
C1_Idempotent ==
    [][(invoked /\ Cardinality(DeclAt(contents, Opposite)) <= 1)
        => (fxmanifest' = fxmanifest /\ ~wrote')]_vars

\* the latest run wrote nothing to a file that an earlier run had changed: its
\* ui_page declaration holds the dev server URL, which no input manifest does
C1_Witness ==
    /\ invoked /\ fileExists /\ ~wrote /\ contents = fxmanifest
    /\ IS_WATCH /\ HAS_WEB_DIR /\ IS_REDM
    /\ Cardinality(DeclAt(fxmanifest, "rdr3")) = 1
    /\ \E i \in StmtAt(fxmanifest, "ui_page") :
          UiDeclText(fxmanifest, i)
              = <<"ui_page", " ", "'",
                  "http://" \o SERVER_IP \o ":" \o ToString(config.webDevPort), "'">>

\* s holds game 'rdr3' with an rdr3_warning statement on the next line, and no
\* game 'gta5'
OnRedM(s) ==
    /\ DeclAt(s, "gta5") = {}
    /\ \E i \in DeclAt(s, "rdr3") :
          LET e == MatchDecl(s, i, "game", "rdr3")
          IN  e < Len(s) /\ s[e] = "\n" /\ MatchStmt(s, e + 1, "rdr3_warning") # 0

\* C3 as stated: every manifest with a game 'gta5' declaration, patched with
\* IS_REDM, holds game 'rdr3' followed on the next line by an rdr3_warning
\* line, and no game 'gta5'.
C3_ToRedMAlways ==
    (invoked /\ IS_REDM /\ DeclAt(contents, "gta5") # {}) => OnRedM(fxmanifest)

\* C3 amended: the same for every manifest with exactly one game 'gta5'
\* declaration and no text rdr3_warning in it.
C3_ToRedM ==
    (invoked /\ IS_REDM /\ Cardinality(DeclAt(contents, "gta5")) = 1
        /\ ~Includes(contents, "rdr3_warning"))
    => OnRedM(fxmanifest)

C3_Witness ==
    /\ invoked /\ IS_REDM /\ wrote
    /\ Cardinality(DeclAt(contents, "gta5")) = 1
    /\ ~Includes(contents, "rdr3_warning")
    /\ Includes(contents, "fx_version")
    /\ OnRedM(fxmanifest)

\* C8: every manifest with a game 'rdr3' declaration and an rdr3_warning line,
\* patched without IS_REDM, holds game 'gta5' and no rdr3_warning.
C8_ToFiveM ==
    (invoked /\ ~IS_REDM /\ DeclAt(contents, "rdr3") # {}
        /\ StmtAt(contents, "rdr3_warning") # {})
    => (DeclAt(fxmanifest, "gta5") # {} /\ ~Includes(fxmanifest, "rdr3_warning"))

C8_Witness ==
    /\ invoked /\ ~IS_REDM /\ wrote
    /\ DeclAt(contents, "rdr3") # {}
    /\ Cardinality(StmtAt(contents, "rdr3_warning")) = 2
    /\ DeclAt(fxmanifest, "gta5") # {} /\ ~Includes(fxmanifest, "rdr3_warning")

\* the ui_page declarations of the file are exactly one, the desired one
OneDesiredUiPage ==
    /\ Cardinality(StmtAt(fxmanifest, "ui_page")) = 1
    /\ \A i \in StmtAt(fxmanifest, "ui_page") :
          UiDeclText(fxmanifest, i)
              = IF IS_WATCH
                THEN <<"ui_page", " ", "'",
                       "http://" \o SERVER_IP \o ":" \o ToString(config.webDevPort), "'">>
                ELSE <<"ui_page", " ", "'", "html/index.html", "'">>

\* appended at the end after a blank line when the manifest had none, replaced
\* where it stood when it had one
UiPagePlaced ==
    IF StmtAt(contents, "ui_page") = {}
    THEN \A i \in StmtAt(fxmanifest, "ui_page") :
            EndsWith(fxmanifest, <<"\n", "\n">> \o UiDeclText(fxmanifest, i) \o <<"\n">>)
    ELSE CutUiDecl(fxmanifest) = CutUiDecl(PatchGame(contents, IS_REDM))

\* C4 as stated: without a web directory the patched manifest has no ui_page
\* declaration; with one it has exactly one, which points at the dev server
\* in watch mode and at html/index.html otherwise, whatever the manifest held.
C4_UiPageAlways ==
    (invoked /\ fileExists)
    => IF HAS_WEB_DIR THEN OneDesiredUiPage /\ UiPagePlaced
       ELSE StmtAt(fxmanifest, "ui_page") = {}

\* C4 amended: with a web directory the same holds for every manifest with at
\* most one ui_page declaration.
C4_UiPage ==
    (invoked /\ fileExists)
    => IF HAS_WEB_DIR
       THEN Cardinality(StmtAt(contents, "ui_page")) <= 1
            => (OneDesiredUiPage /\ UiPagePlaced)
       ELSE StmtAt(fxmanifest, "ui_page") = {}

\* the dev server URL was appended to a manifest without ui_page
C4_Witness ==
    /\ invoked /\ fileExists /\ wrote /\ HAS_WEB_DIR /\ IS_WATCH
    /\ StmtAt(contents, "ui_page") = {} /\ Includes(contents, "fx_version")
    /\ config.webDevPort = 3000
    /\ OneDesiredUiPage

\* C5: the other statements of the manifest, each with its indentation, are
\* in the patched manifest exactly as they were and in the same order.
C5_OtherLinesKept ==
    (invoked /\ fileExists) => OtherLines(fxmanifest) = OtherLines(contents)

(***************************************************************************)
(* Properties of build(), checked under Spec and FairSpec.                 *)
(***************************************************************************)

\* C6: the exit status is 0 only in one-shot mode with every target built and,
\* with a web directory, the web build done; once a bundler call has thrown the
\* process has exited with status 1.
C6_ExitStatus ==
    /\ exitCode = 0 =>
          /\ ~IS_WATCH
          /\ \A t \in config.builds : ctx[t] = "built"
          /\ HAS_WEB_DIR => webProcess = "built"
    /\ (\E t \in config.builds : ctx[t] = "threw") => exitCode = 1
    /\ webProcess = "failed" => exitCode = 1

C6_Witness ==
    /\ exitCode = 0 /\ HAS_WEB_DIR /\ webProcess = "built"
    /\ Cardinality(config.builds) = 2

Outcomes == {<<"restarted">>, <<"status">>, <<"timedout">>, <<"failed">>}

\* the requests that settle in a step
Settling == {r \in 1..Len(requests) : Pending(r) /\ requests'[r].fetch # "pending"}

\* C7, state part: a request has no logged outcome while it is pending and
\* exactly one afterwards; a response is logged as restarted or as a status, a
\* fired timer as timed out and only once restartTimeout has elapsed, any
\* other rejection as failed.
C7_OneOutcome ==
    \A r \in 1..Len(requests) :
        LET q == requests[r]
        IN  /\ q.fetch = "pending" <=> q.log = <<>>
            /\ q.fetch # "pending" => q.log \in Outcomes
            /\ q.fetch = "fulfilled" =>
                  q.log \in {<<"restarted">>, <<"status">>} /\ q.timer = "cleared"
            /\ q.timer = "fired" <=> q.log = <<"timedout">>
            /\ q.timer = "fired" => now - q.at >= config.restartTimeout
            /\ q.log = <<"failed">> => q.fetch = "rejected" /\ q.timer = "cleared"

\* C7, step part: a settled request never changes again, and a step in which
\* a request settles issues no request and leaves the session, the debounce
\* timestamp and the exit status alone.
C7_Terminal ==
    /\ \A r \in 1..Len(requests) : ~Pending(r) => requests'[r] = requests[r]
    /\ Settling # {} =>
          /\ Len(requests') = Len(requests)
          /\ UNCHANGED <<exitCode, pc, ctx, lastRebuild, ends>>

\* C7: every restart request ends in exactly one logged outcome, and a pending
\* request whose restartTimeout has elapsed is eventually settled (it is timed
\* out unless a response or an error comes first) while the process lives.
C7_RestartOutcome ==
    /\ []C7_OneOutcome
    /\ [][C7_Terminal]_vars
    /\ \A r \in 1..MaxEnds :
          (Alive /\ r <= Len(requests) /\ Pending(r)
              /\ now - requests[r].at >= config.restartTimeout)
          ~> (~Alive \/ (r <= Len(requests) /\ ~Pending(r)))

\* a request timed out while an earlier one was answered
C7_Witness ==
    \E r1, r2 \in 1..Len(requests) :
        /\ requests[r1].log = <<"status">>
        /\ requests[r2].log = <<"timedout">>

\* the error-free completions i < j less than debounceDelay apart
ClosePairs ==
    {p \in (1..Len(ends)) \X (1..Len(ends)) :
        /\ p[1] < p[2]
        /\ ~ends[p[1]].errors /\ ~ends[p[2]].errors
        /\ ends[p[2]].at - ends[p[1]].at < config.debounceDelay}

\* C2 as stated: two error-free completions less than debounceDelay apart
\* trigger exactly one restart request between them.
C2_ExactlyOneAlways ==
    \A p \in ClosePairs :
        Cardinality({k \in {p[1], p[2]} : ends[k].request # 0}) = 1

\* C2 amended: the completions from the earlier to the later of the two
\* trigger at most one restart request: exactly one when the later is at least
\* debounceDelay after the debounce timestamp as the earlier found it, none
\* otherwise.
C2_AtMostOne ==
    \A p \in ClosePairs :
        Cardinality({k \in p[1]..p[2] : ends[k].request # 0})
            = IF ends[p[2]].at - ends[p[1]].since >= config.debounceDelay THEN 1 ELSE 0

\* one pair where the earlier completion triggered the request and one where
\* the later did
C2_Witness ==
    /\ \E p \in ClosePairs : ends[p[1]].request # 0 /\ ends[p[2]].request = 0
    /\ Len(requests) = 1

\* C9 as stated: at most one restart request is outstanding.
C9_OneOutstanding == Cardinality({r \in 1..Len(requests) : Pending(r)}) <= 1

\* C9 amended, state part: any two requests were issued at least debounceDelay
\* apart, each by an error-free completion.
C9_Spaced ==
    /\ \A r1, r2 \in 1..Len(requests) :
          r1 < r2 => requests[r2].at - requests[r1].at >= config.debounceDelay
    /\ \A r \in 1..Len(requests) :
          \E k \in 1..Len(ends) :
              ends[k].request = r /\ ~ends[k].errors /\ ends[k].at = requests[r].at

\* C9 amended, step part: a request stops being outstanding only by a
\* response, by its timer or by a network error, and a request is issued
\* whether or not others are outstanding.
C9_Leaves ==
    \A r \in Settling :
        \/ requests'[r].fetch = "fulfilled" /\ requests'[r].timer = "cleared"
        \/ requests'[r].fetch = "rejected" /\ requests'[r].timer = "fired"
              /\ now - requests[r].at >= config.restartTimeout
        \/ requests'[r].fetch = "rejected" /\ requests'[r].timer = "cleared"
              /\ requests'[r].log = <<"failed">>

\* C9 amended: requests are issued at least debounceDelay apart whether or not
\* earlier ones are outstanding, and each stops being outstanding only by
\* response, timeout or network error.
C9_Notifier == []C9_Spaced /\ [][C9_Leaves]_vars

\* two requests outstanding at once
C9_Witness ==
    \E r1, r2 \in 1..Len(requests) : r1 < r2 /\ Pending(r1) /\ Pending(r2)

\* C10: a step that runs an onEnd callback issues a request and stamps
\* lastRebuild exactly when the rebuild had no errors and debounceDelay has
\* elapsed since lastRebuild, and otherwise changes neither; it never ends the
\* session; no other step issues a request or moves lastRebuild.
C10_OnEndStep ==
    IF Len(ends') = Len(ends) + 1
    THEN LET e == ends'[Len(ends')]
             go == ~e.errors /\ now - lastRebuild >= config.debounceDelay
         IN  /\ go => /\ Len(requests') = Len(requests) + 1
                      /\ requests'[Len(requests')].at = now
                      /\ requests'[Len(requests')].fetch = "pending"
                      /\ lastRebuild' = now
             /\ ~go => requests' = requests /\ lastRebuild' = lastRebuild
             /\ UNCHANGED <<exitCode, pc, ctx>>
    ELSE /\ Len(requests') = Len(requests)
         /\ pc # "start" => lastRebuild' = lastRebuild

\* C10: every step of the program keeps to the onEnd rule above: a request and
\* a new lastRebuild only from an error-free completion past the debounce.
C10_OnEnd == [][C10_OnEndStep]_vars

\* a completion with errors and an error-free one that restarted the resource
C10_Witness ==
    /\ Alive
    /\ \E i, j \in 1..Len(ends) :
          /\ ends[i].errors /\ ends[i].request = 0
          /\ ends[j].request # 0 /\ ends[j].at - ends[j].since >= config.debounceDelay

====
